---------------------------- MODULE Spec2Model ----------------------------
(***************************************************************************)
(* The timer core of cosmic-pomodoro: the PomodoroTimer controller         *)
(* (src/core/pomodoro_timer.rs), the clock thread it spawns, and the two   *)
(* messages of CosmicPomodoro::update (src/app.rs) that drive it.          *)
(*                                                                         *)
(* Two threads share two objects: the mpsc channel counter_pipe and the    *)
(* AtomicU32 remaining_sec.  Every action below holds exactly one access   *)
(* to a shared object, together with the thread-local statements around   *)
(* it, so every interleaving of the shared accesses is explored.  A        *)
(* message handler runs to completion: while ui_pc # "idle" no other       *)
(* message is handled.                                                     *)
(***************************************************************************)
EXTENDS Integers, Sequences, FiniteSets, TLC

VARIABLES
    pomodoro_phase,   \* PomodoroTimer.pomodoro_phase
    pomodoro_state,   \* PomodoroTimer.pomodoro_state
    position,         \* PomodoroTimer.position, 0-based
    remaining_sec,    \* the AtomicU32, its 32 bits read as two's complement
    counter_pipe,     \* signals sent and not yet received, oldest first
    is_active,        \* the clock thread's local flag
    clock_pc,         \* the clock thread's place in its loop
    ui_pc,            \* the place of the message handler being run
    notification,     \* what the current (or last) handler call has shown
    call,             \* the current (or last) handler call, as it was entered
    last_sent,        \* the signal of the most recent send (FALSE before any)
    formated_remaining \* view()'s time label, a sequence of characters

vars == <<pomodoro_phase, pomodoro_state, position, remaining_sec, counter_pipe,
          is_active, clock_pc, ui_pc, notification, call, last_sent,
          formated_remaining>>

---------------------------------------------------------------------------
(* Bounds of the exploration. *)

\* Signals that may wait in the channel; the mpsc channel itself is unbounded.
MaxQueue == 4

\* Decrements explored below zero once the counter has wrapped.
MaxWrapTicks == 2

---------------------------------------------------------------------------
(* The data of PomodoroTimer::new. *)

pomodoro_lengths ==
    << [focus |-> 10, relax |-> 5], [focus |-> 7, relax |-> 4] >>

NumRounds == Len(pomodoro_lengths)

PomodoroPhase == {"BeforeFocus", "Focus", "BeforeRelax", "Relax"}
PomodoroState == {"Stop", "Run", "Pause"}

\* pomodoro_lengths[pos].focus and .relax, pos 0-based as in the source.
FocusOf(pos) == pomodoro_lengths[pos + 1].focus
RelaxOf(pos) == pomodoro_lengths[pos + 1].relax

\* NextPhase with the BeforeRelax arm leading back to BeforeFocus.
NextPhaseSkipsRelax(p) ==
    CASE p = "BeforeFocus" -> "Focus"
      [] p = "Focus"       -> "BeforeRelax"
      [] p = "BeforeRelax" -> "BeforeFocus"
      [] p = "Relax"       -> "BeforeFocus"

\* The match of Message::StartTimer, PomodoroState::Stop.
NextPhase(p) ==
    CASE p = "BeforeFocus" -> "Focus"
      [] p = "Focus"       -> "BeforeRelax"
      [] p = "BeforeRelax" -> "Relax"
      [] p = "Relax"       -> "BeforeFocus"

\* NextPosition without the increment.
NextPositionKeeps(pos) == pos

\* NextPosition with `>` for `>=`: the wrap comes one round late.
NextPositionWrapsLate(pos) == IF pos + 1 > NumRounds THEN 0 ELSE pos + 1

\* position += 1; if position >= len { position = 0 }
NextPosition(pos) == IF pos + 1 >= NumRounds THEN 0 ELSE pos + 1

\* FetchSub counting up.
FetchSubAdds(v) == v + 1

\* AtomicU32::fetch_sub(1): wrapping.  0 - 1 is the bit pattern 0xFFFFFFFF,
\* which reads -1 in two's complement (4294967295 as the u32 it is).
FetchSub(v) == v - 1

\* `load() > 0u32`, an unsigned comparison: every bit pattern but 0.
IsPositiveU32(v) == v # 0

\* ReachedZero with the comparison off by one.
ReachedZeroOrOne(v) == v <= 1

\* `remaining_sec.load() == 0u32`, the guard of Message::Refresh.
ReachedZero(v) == v = 0

\* AutoContinues without the look at the window.
AutoContinuesAlways(focused) == TRUE

\* `if self.is_focused()`: the auto-continue into Relax.
AutoContinues(focused) == focused

\* The summary of the notification shown when focus ends.
BeforeRelaxSummary == "before-relax"

\* AfterRelaxSummary with the text of the other branch.
AfterRelaxSummaryCopied == "before-relax"

\* The summary of the notification shown when relax ends.
AfterRelaxSummary == "after-relax"

\* TryRecv forgetting the flag when no signal waits.
TryRecvForgets(pipe, flag) == IF pipe = << >> THEN FALSE ELSE Head(pipe)

\* try_recv: the oldest waiting signal, or the flag kept when none waits.
TryRecv(pipe, flag) == IF pipe = << >> THEN flag ELSE Head(pipe)

\* AfterRecv emptying the channel: the signals behind the oldest are dropped.
AfterRecvDropsAll(pipe) == << >>

AfterRecv(pipe) == IF pipe = << >> THEN pipe ELSE Tail(pipe)

---------------------------------------------------------------------------
(* PomodoroTimer's operations, each one send and one assignment. *)

\* start without its assignment of the state.
start_keeps_state ==
          /\ counter_pipe' = Append(counter_pipe, TRUE)
          /\ last_sent' = TRUE
          /\ pomodoro_state' = pomodoro_state

start  == /\ counter_pipe' = Append(counter_pipe, TRUE)
          /\ last_sent' = TRUE
          /\ pomodoro_state' = "Run"

\* pause with the assignment of stop.
pause_stops ==
          /\ counter_pipe' = Append(counter_pipe, FALSE)
          /\ last_sent' = FALSE
          /\ pomodoro_state' = "Stop"

pause  == /\ counter_pipe' = Append(counter_pipe, FALSE)
          /\ last_sent' = FALSE
          /\ pomodoro_state' = "Pause"

\* resume without its send.
resume_silent ==
          /\ counter_pipe' = counter_pipe
          /\ last_sent' = last_sent
          /\ pomodoro_state' = "Run"

resume == /\ counter_pipe' = Append(counter_pipe, TRUE)
          /\ last_sent' = TRUE
          /\ pomodoro_state' = "Run"

\* stop sending the signal of start.
stop_activates ==
          /\ counter_pipe' = Append(counter_pipe, TRUE)
          /\ last_sent' = TRUE
          /\ pomodoro_state' = "Stop"

stop   == /\ counter_pipe' = Append(counter_pipe, FALSE)
          /\ last_sent' = FALSE
          /\ pomodoro_state' = "Stop"

\* The record of a handler call as it is entered.
Enter(op) ==
    call' = [seq      |-> 1 - call.seq,
             op       |-> op,
             phase    |-> pomodoro_phase,
             state    |-> pomodoro_state,
             position |-> position,
             rem      |-> remaining_sec,
             focused  |-> FALSE]

Room(n) == Len(counter_pipe) + n <= MaxQueue

---------------------------------------------------------------------------
\* Init with the clock thread's flag starting out true.
InitClockActive ==
    /\ pomodoro_phase = "BeforeFocus"
    /\ pomodoro_state = "Stop"
    /\ position = 0
    /\ remaining_sec = FocusOf(0)
    /\ counter_pipe = << >>
    /\ is_active = TRUE
    /\ clock_pc = "recv"
    /\ ui_pc = "idle"
    /\ notification = "none"
    /\ last_sent = FALSE
    /\ formated_remaining = << >>
    /\ call = [seq |-> 0, op |-> "new", phase |-> "BeforeFocus", state |-> "Stop",
               position |-> 0, rem |-> FocusOf(0), focused |-> FALSE]

Init ==
    /\ pomodoro_phase = "BeforeFocus"
    /\ pomodoro_state = "Stop"
    /\ position = 0
    /\ remaining_sec = FocusOf(0)
    /\ counter_pipe = << >>
    /\ is_active = FALSE
    /\ clock_pc = "recv"
    /\ ui_pc = "idle"
    /\ notification = "none"
    /\ last_sent = FALSE
    /\ formated_remaining = << >>
    /\ call = [seq |-> 0, op |-> "new", phase |-> "BeforeFocus", state |-> "Stop",
               position |-> 0, rem |-> FocusOf(0), focused |-> FALSE]

---------------------------------------------------------------------------
(* The clock thread: loop { try_recv; if is_active && load > 0 { fetch_sub };
   sleep(1 s) }. *)

ClockRecv ==
    /\ clock_pc = "recv"
    /\ is_active' = TryRecv(counter_pipe, is_active)
    /\ counter_pipe' = AfterRecv(counter_pipe)
    /\ clock_pc' = IF is_active' THEN "load" ELSE "recv"
    /\ UNCHANGED <<pomodoro_phase, pomodoro_state, position, remaining_sec,
                   ui_pc, notification, call,
                   last_sent, formated_remaining>>

\* ClockLoad leaving the loop (and dropping the receiver) once the counter
\* is found at 0.
ClockLoadBreaksAtZero ==
    /\ clock_pc = "load"
    /\ clock_pc' = IF IsPositiveU32(remaining_sec) THEN "sub" ELSE "exited"
    /\ UNCHANGED <<pomodoro_phase, pomodoro_state, position, remaining_sec,
                   counter_pipe, is_active, ui_pc, notification, call,
                   last_sent, formated_remaining>>

ClockLoad ==
    /\ clock_pc = "load"
    /\ clock_pc' = IF IsPositiveU32(remaining_sec) THEN "sub" ELSE "recv"
    /\ UNCHANGED <<pomodoro_phase, pomodoro_state, position, remaining_sec,
                   counter_pipe, is_active, ui_pc, notification, call,
                   last_sent, formated_remaining>>

ClockSub ==
    /\ clock_pc = "sub"
    /\ FetchSub(remaining_sec) >= -MaxWrapTicks
    /\ remaining_sec' = FetchSub(remaining_sec)
    /\ clock_pc' = "recv"
    /\ UNCHANGED <<pomodoro_phase, pomodoro_state, position, counter_pipe,
                   is_active, ui_pc, notification, call,
                   last_sent, formated_remaining>>

---------------------------------------------------------------------------
(* CosmicPomodoro::update, Message::StartTimer. *)

StartTimer ==
    /\ ui_pc = "idle"
    /\ Room(1)
    /\ Enter("StartTimer")
    /\ notification' = "none"
    /\ CASE pomodoro_state = "Stop" ->
              /\ pomodoro_phase' = NextPhase(pomodoro_phase)
              /\ start
         [] pomodoro_state = "Run" ->
              /\ pause
              /\ UNCHANGED pomodoro_phase
         [] pomodoro_state = "Pause" ->
              /\ resume
              /\ UNCHANGED pomodoro_phase
    /\ UNCHANGED <<position, remaining_sec, is_active, clock_pc, ui_pc,
                   formated_remaining>>

---------------------------------------------------------------------------
(* CosmicPomodoro::update, Message::Refresh. *)

\* The load of line 201 and the match on the phase.
RefreshLoad ==
    /\ ui_pc = "idle"
    /\ Room(2)
    /\ Enter("Refresh")
    /\ notification' = "none"
    /\ ui_pc' = IF ReachedZero(remaining_sec)
                THEN CASE pomodoro_phase = "Focus" -> "focus_stop"
                       [] pomodoro_phase = "Relax" -> "relax_stop"
                       [] OTHER -> "idle"
                ELSE "idle"
    /\ UNCHANGED <<pomodoro_phase, pomodoro_state, position, remaining_sec,
                   counter_pipe, is_active, clock_pc,
                   last_sent, formated_remaining>>

\* Refresh with the subscription kept in every state.
RefreshAlways ==
    /\ pomodoro_state \in PomodoroState
    /\ RefreshLoad

\* subscription(): Refresh is produced only while the state is Run.
Refresh ==
    /\ pomodoro_state = "Run"
    /\ RefreshLoad

\* PomodoroPhase::Focus: phase = BeforeRelax; stop().
FocusStop ==
    /\ ui_pc = "focus_stop"
    /\ pomodoro_phase' = "BeforeRelax"
    /\ stop
    /\ ui_pc' = "focus_store"
    /\ UNCHANGED <<position, remaining_sec, is_active, clock_pc, notification, call,
                   formated_remaining>>

\* remaining_sec.store(relax); the notification; is_focused().
FocusStore ==
    /\ ui_pc = "focus_store"
    /\ remaining_sec' = RelaxOf(position)
    /\ notification' = BeforeRelaxSummary
    /\ \E focused \in BOOLEAN :
          /\ call' = [call EXCEPT !.focused = focused]
          /\ ui_pc' = IF AutoContinues(focused) THEN "focus_start" ELSE "idle"
    /\ UNCHANGED <<pomodoro_phase, pomodoro_state, position, counter_pipe,
                   is_active, clock_pc,
                   last_sent, formated_remaining>>

\* if self.is_focused() { phase = Relax; start() }
FocusStart ==
    /\ ui_pc = "focus_start"
    /\ pomodoro_phase' = "Relax"
    /\ start
    /\ ui_pc' = "idle"
    /\ UNCHANGED <<position, remaining_sec, is_active, clock_pc, notification, call,
                   formated_remaining>>

\* PomodoroPhase::Relax: the next position; phase = BeforeFocus; stop().
RelaxStop ==
    /\ ui_pc = "relax_stop"
    /\ position' = NextPosition(position)
    /\ pomodoro_phase' = "BeforeFocus"
    /\ stop
    /\ ui_pc' = "relax_store"
    /\ UNCHANGED <<remaining_sec, is_active, clock_pc, notification, call,
                   formated_remaining>>

\* remaining_sec.store(focus of the new position); the notification.
RelaxStore ==
    /\ ui_pc = "relax_store"
    /\ remaining_sec' = FocusOf(position)
    /\ notification' = AfterRelaxSummary
    /\ ui_pc' = "idle"
    /\ UNCHANGED <<pomodoro_phase, pomodoro_state, position, counter_pipe,
                   is_active, clock_pc, call,
                   last_sent, formated_remaining>>

---------------------------------------------------------------------------
(* The application as the runtime drives it: the play/pause button, the
   250 ms subscription and the clock thread. *)

Next ==
    \/ StartTimer
    \/ Refresh
    \/ FocusStop
    \/ FocusStore
    \/ FocusStart
    \/ RelaxStop
    \/ RelaxStore
    \/ ClockRecv
    \/ ClockLoad
    \/ ClockSub

Spec == Init /\ [][Next]_vars

\* The same, with the clock thread scheduled again and again: its loop sleeps
\* one second and then takes its next step, whatever the controller does.
FairSpec ==
    /\ Spec
    /\ WF_vars(ClockRecv)
    /\ WF_vars(ClockLoad)
    /\ WF_vars(ClockSub)

\* The same again, with the runtime at work as well: the subscription
\* delivers a Refresh every 250 ms for as long as the state is Run, and a
\* handler that has been entered runs on to its end.  Nothing is assumed of
\* the user: StartTimer may come at any time, or never.
LiveSpec ==
    /\ FairSpec
    /\ WF_vars(Refresh)
    /\ WF_vars(FocusStop)
    /\ WF_vars(FocusStore)
    /\ WF_vars(FocusStart)
    /\ WF_vars(RelaxStop)
    /\ WF_vars(RelaxStore)

---------------------------------------------------------------------------
(* PomodoroTimer's public operations called directly, and Refresh delivered
   in any run state: what update() and the controller do when they are driven
   by something other than the subscription. *)

\* PomodoroTimer::stop.
ApiStop ==
    /\ ui_pc = "idle"
    /\ Room(1)
    /\ Enter("stop")
    /\ notification' = "none"
    /\ stop
    /\ UNCHANGED <<pomodoro_phase, position, remaining_sec, is_active, clock_pc, ui_pc,
                   formated_remaining>>

\* PomodoroTimer::reset: self.stop().
ResetStop ==
    /\ ui_pc = "idle"
    /\ Room(1)
    /\ Enter("reset")
    /\ notification' = "none"
    /\ stop
    /\ ui_pc' = "reset_store"
    /\ UNCHANGED <<pomodoro_phase, position, remaining_sec, is_active, clock_pc,
                   formated_remaining>>

\* PomodoroTimer::reset: remaining_sec.store(0); position = 0.
ResetStore ==
    /\ ui_pc = "reset_store"
    /\ remaining_sec' = 0
    /\ position' = 0
    /\ ui_pc' = "idle"
    /\ UNCHANGED <<pomodoro_phase, pomodoro_state, counter_pipe, is_active,
                   clock_pc, notification, call,
                   last_sent, formated_remaining>>

NextApi ==
    \/ StartTimer
    \/ RefreshLoad
    \/ FocusStop
    \/ FocusStore
    \/ FocusStart
    \/ RelaxStop
    \/ RelaxStore
    \/ ApiStop
    \/ ResetStop
    \/ ResetStore
    \/ ClockRecv
    \/ ClockLoad
    \/ ClockSub

SpecApi == Init /\ [][NextApi]_vars

---------------------------------------------------------------------------
(* CosmicPomodoro::view, which the runtime calls between two messages. *)

\* initial_secs: the relax length in Relax, the focus length in Focus, and
\* the 0 it is initialised with in BeforeFocus and BeforeRelax.
InitialSecs(phase, pos) ==
    IF phase = "Relax" THEN RelaxOf(pos)
    ELSE IF phase = "Focus" THEN FocusOf(pos)
    ELSE 0

\* The divisor of `1.0 - remaining_secs as f32 / initial_secs as f32` in
\* get_play_pause_button, which view calls in every phase and run state.
ProgressDivisor == InitialSecs(pomodoro_phase, position)

\* TimeDurationExt::as_minutes: as_secs() / 60.
as_minutes(secs) == secs \div 60

\* as_seconds with a modulus of 100.
as_seconds_mod_100(secs) == secs % 100

\* TimeDurationExt::as_seconds: as_secs() % 60.
as_seconds(secs) == secs % 60

DigitChars == << "0", "1", "2", "3", "4", "5", "6", "7", "8", "9" >>

\* Display of an unsigned integer: its decimal digits, most significant first.
RECURSIVE Decimal(_)
Decimal(n) ==
    IF n < 10 THEN << DigitChars[n + 1] >>
    ELSE Decimal(n \div 10) \o << DigitChars[(n % 10) + 1] >>

\* The format `{:02}`: zero-padded to a width of at least 2.
Pad2(n) == IF n < 10 THEN << "0" >> \o Decimal(n) ELSE Decimal(n)

\* format!("{:02}:{:02}", remaining_duration.as_minutes(),
\*         remaining_duration.as_seconds())
FormatRemaining(secs) ==
    Pad2(as_minutes(secs)) \o << ":" >> \o Pad2(as_seconds(secs))

\* view: the time label of the counter it loads.
View ==
    /\ ui_pc = "idle"
    /\ remaining_sec >= 0
    /\ formated_remaining' = FormatRemaining(remaining_sec)
    /\ UNCHANGED <<pomodoro_phase, pomodoro_state, position, remaining_sec,
                   counter_pipe, is_active, clock_pc, ui_pc, notification, call,
                   last_sent>>

---------------------------------------------------------------------------
(* The time label as a function of the counter: view applied to every
   counter value up to MaxLabelSecs. *)

\* Largest counter value rendered: past 99 minutes, where the label widens.
MaxLabelSecs == 6100

InitLabel ==
    /\ pomodoro_phase = "BeforeFocus"
    /\ pomodoro_state = "Stop"
    /\ position = 0
    /\ remaining_sec \in 0 .. MaxLabelSecs
    /\ counter_pipe = << >>
    /\ is_active = FALSE
    /\ clock_pc = "recv"
    /\ ui_pc = "idle"
    /\ notification = "none"
    /\ last_sent = FALSE
    /\ formated_remaining = << >>
    /\ call = [seq |-> 0, op |-> "new", phase |-> "BeforeFocus", state |-> "Stop",
               position |-> 0, rem |-> remaining_sec, focused |-> FALSE]

NextLabel == View

SpecLabel == InitLabel /\ [][NextLabel]_vars

---------------------------------------------------------------------------
(* Shared by the properties below. *)

TypeOK ==
    /\ pomodoro_phase \in PomodoroPhase
    /\ pomodoro_state \in PomodoroState
    /\ position \in 0 .. NumRounds - 1
    /\ remaining_sec \in Int
    /\ counter_pipe \in Seq(BOOLEAN) /\ Len(counter_pipe) <= MaxQueue
    /\ is_active \in BOOLEAN
    /\ clock_pc \in {"recv", "load", "sub"}
    /\ ui_pc \in {"idle", "focus_stop", "focus_store", "focus_start",
                  "relax_stop", "relax_store", "reset_store"}
    /\ notification \in {"none", "before-relax", "after-relax"}
    /\ last_sent \in BOOLEAN

\* The fixed cycle of phases, as pairs (from, to).
Cycle == { <<"BeforeFocus", "Focus">>, <<"Focus", "BeforeRelax">>,
           <<"BeforeRelax", "Relax">>, <<"Relax", "BeforeFocus">> }

\* This step enters a message handler (or a direct call of the controller).
Entered == call'.seq # call.seq

\* This step is the last of a handler call.
Returned == (Entered \/ ui_pc # "idle") /\ ui_pc' = "idle"

\* The current (or last) call was Refresh finding the counter at 0 in phase p.
ZeroRefresh(p) == call.op = "Refresh" /\ call.rem = 0 /\ call.phase = p

---------------------------------------------------------------------------
(* C1.  Under StartTimer, Refresh and the clock, every change of the phase
   is one step along BeforeFocus -> Focus -> BeforeRelax -> Relax ->
   BeforeFocus, the position changes only on Relax -> BeforeFocus, and on
   that transition it becomes (position + 1) modulo the number of rounds. *)
PhaseFollowsCycle ==
    [][ /\ pomodoro_phase' # pomodoro_phase
             => <<pomodoro_phase, pomodoro_phase'>> \in Cycle
        /\ position' # position
             => pomodoro_phase = "Relax" /\ pomodoro_phase' = "BeforeFocus"
        /\ (pomodoro_phase = "Relax" /\ pomodoro_phase' = "BeforeFocus")
             => position' = (position + 1) % NumRounds ]_vars

\* The relax phase of the last round has ended and the cycle has restarted.
CycleRestarted ==
    /\ ui_pc = "idle"
    /\ ZeroRefresh("Relax")
    /\ call.position = NumRounds - 1
    /\ position = 0
    /\ pomodoro_phase = "BeforeFocus"

(* C2.  After Refresh has found the counter at 0 in phase Focus: with the
   window focused the call ends in phase Relax, state Run; with the window
   not focused it ends in phase BeforeRelax, state Stop, and phase and state
   stay so until the next message is handled (which, the state being Stop,
   is a StartTimer). *)
FocusZeroOutcome ==
    (ui_pc = "idle" /\ ZeroRefresh("Focus"))
        => IF call.focused
           THEN pomodoro_phase = "Relax" /\ pomodoro_state = "Run"
           ELSE pomodoro_phase = "BeforeRelax" /\ pomodoro_state = "Stop"

\* The unfocused outcome, some clock steps after the call has returned.
WaitingBeforeRelax ==
    /\ ui_pc = "idle"
    /\ ZeroRefresh("Focus")
    /\ ~call.focused
    /\ pomodoro_state = "Stop"
    /\ counter_pipe = << >>
    /\ ~is_active

(* C3.  While the state is Pause the counter keeps the value it had when
   pause() returned (call.rem: the StartTimer call that paused did not write
   the counter). *)
PauseKeepsCounter ==
    pomodoro_state = "Pause" => remaining_sec = call.rem

(* C4.  The u32 counter never wraps below zero: no fetch_sub is applied to
   0, under any interleaving of the clock's load and fetch_sub with the
   controller's stores, reset()'s store(0) included.  A wrapped counter holds
   a bit pattern that reads negative. *)
CounterNeverWraps ==
    remaining_sec >= 0

(* C5.  After Refresh has found the counter at 0 in phase Focus with the
   window not focused, the counter equals the relax duration of the current
   position for as long as the state stays Stop. *)
StoppedKeepsRelaxDuration ==
    (ui_pc = "idle" /\ ZeroRefresh("Focus") /\ ~call.focused /\ pomodoro_state = "Stop")
        => remaining_sec = pomodoro_lengths[position + 1].relax

(* C6.  When a Refresh call that found the counter at 0 in phase Relax
   returns, whatever the window's focus: the position is the next one (0 after
   the last round), the phase is BeforeFocus, the state is Stop (the next
   focus countdown is not started) and the counter holds the focus duration
   of the new position. *)
RelaxZeroOutcome ==
    [][ (Returned /\ ZeroRefresh("Relax")')
          => /\ position' = (call.position + 1) % NumRounds
             /\ pomodoro_phase' = "BeforeFocus"
             /\ pomodoro_state' = "Stop"
             /\ remaining_sec' = pomodoro_lengths[position' + 1].focus ]_vars

\* The relax phase of the first round has ended: position 1 awaits its focus.
SecondRoundReady ==
    /\ ui_pc = "idle"
    /\ ZeroRefresh("Relax")
    /\ call.position = 0
    /\ position = 1
    /\ pomodoro_state = "Stop"
    /\ remaining_sec = 7

(* C7.  A Refresh that finds the counter different from 0 changes neither
   phase, position nor state, sends no signal, shows no notification and
   returns at once, in every phase and every run state. *)
RefreshNonZeroIsNoOp ==
    [][ (Entered /\ call'.op = "Refresh" /\ remaining_sec # 0)
          => /\ UNCHANGED <<pomodoro_phase, position, pomodoro_state, counter_pipe>>
             /\ notification' = "none"
             /\ ui_pc' = "idle" ]_vars

\* Such a Refresh has been handled while the timer was paused in phase Relax
\* with one second left.
RefreshedWhilePaused ==
    /\ ui_pc = "idle"
    /\ call.op = "Refresh"
    /\ call.rem = 1
    /\ call.state = "Pause"
    /\ call.phase = "Relax"

(* C8.  When StartTimer returns from a call made in state Stop, the counter
   equals the duration of the phase entered at the current position: the
   focus length in Focus, the relax length in Relax. *)
StartSetsDuration ==
    [][ (Entered /\ call'.op = "StartTimer" /\ pomodoro_state = "Stop")
          => /\ pomodoro_phase' = "Focus"
                  => remaining_sec' = pomodoro_lengths[position' + 1].focus
             /\ pomodoro_phase' = "Relax"
                  => remaining_sec' = pomodoro_lengths[position' + 1].relax ]_vars

(* C9.  At a tick of the clock that finds signals waiting, the activation
   flag becomes the most recently sent signal, however many are waiting. *)
LastSignalWins ==
    [][ (clock_pc = "recv" /\ Len(counter_pipe') < Len(counter_pipe))
          => is_active' = counter_pipe[Len(counter_pipe)] ]_vars

(* C10.  StartTimer dispatches on the run state alone: from Stop the phase
   moves one step along the cycle and the state becomes Run; from Run the
   state becomes Pause and the phase stays; from Pause the state becomes Run
   and the phase stays.  Each sends the matching signal: activate when the
   state becomes Run, deactivate when it becomes Pause. *)
ToggleDispatch ==
    [][ (Entered /\ call'.op = "StartTimer")
          => /\ pomodoro_state = "Stop"
                  => /\ <<pomodoro_phase, pomodoro_phase'>> \in Cycle
                     /\ pomodoro_state' = "Run"
             /\ pomodoro_state = "Run"
                  => /\ pomodoro_phase' = pomodoro_phase
                     /\ pomodoro_state' = "Pause"
             /\ pomodoro_state = "Pause"
                  => /\ pomodoro_phase' = pomodoro_phase
                     /\ pomodoro_state' = "Run"
             /\ counter_pipe' = Append(counter_pipe, pomodoro_state' = "Run") ]_vars

\* A paused relax phase has been resumed.
ResumedRelax ==
    /\ call.op = "StartTimer"
    /\ call.state = "Pause"
    /\ call.phase = "Relax"
    /\ pomodoro_state = "Run"
    /\ pomodoro_phase = "Relax"

(* C11.  The position is always an index of pomodoro_lengths,
   0 <= position < number of rounds, so the lookups of Refresh and view are
   in bounds; and once the Refresh that ends the relax phase of the last
   round has returned, the position is 0. *)
PositionInBounds ==
    /\ position >= 0
    /\ position < Len(pomodoro_lengths)
    /\ (ui_pc = "idle" /\ ZeroRefresh("Relax") /\ call.position = Len(pomodoro_lengths) - 1)
          => position = 0

\* The last round's relax phase has ended and round 0 waits with its full
\* focus duration.
WrappedToFirstRound ==
    /\ ui_pc = "idle"
    /\ ZeroRefresh("Relax")
    /\ call.position = Len(pomodoro_lengths) - 1
    /\ position = 0
    /\ pomodoro_state = "Stop"
    /\ remaining_sec = 10

(* C12.  While the state is Run and the counter is above 0, every tick of
   the clock (one pass of its loop, begun by try_recv) goes on to decrement,
   the first tick after start(), resume() or the auto-continue included; a
   decrement takes exactly 1; and the counter rises only by a controller's
   store. *)
EveryRunningTickDecrements ==
    [][ /\ ( /\ clock_pc = "recv"
             /\ (Len(counter_pipe') < Len(counter_pipe) \/ clock_pc' # clock_pc)
             /\ ui_pc = "idle"
             /\ pomodoro_state = "Run"
             /\ remaining_sec > 0 )
           => (is_active' /\ clock_pc' = "load")
        /\ (clock_pc = "sub" /\ clock_pc' = "recv")
           => remaining_sec' = remaining_sec - 1
        /\ remaining_sec' > remaining_sec
           => ui_pc \in {"focus_store", "relax_store"} ]_vars

(* C13.  pause(), resume() and stop() each send exactly one signal (false,
   true, false) and set the state (Pause, Run, Stop), and write neither the
   counter, the position nor the phase. *)
PauseResumeStopFrame ==
    [][ /\ (Entered /\ call'.op = "StartTimer" /\ pomodoro_state = "Run")
           => /\ counter_pipe' = Append(counter_pipe, FALSE)
              /\ pomodoro_state' = "Pause"
              /\ UNCHANGED <<remaining_sec, position, pomodoro_phase>>
        /\ (Entered /\ call'.op = "StartTimer" /\ pomodoro_state = "Pause")
           => /\ counter_pipe' = Append(counter_pipe, TRUE)
              /\ pomodoro_state' = "Run"
              /\ UNCHANGED <<remaining_sec, position, pomodoro_phase>>
        /\ (Entered /\ call'.op = "stop")
           => /\ counter_pipe' = Append(counter_pipe, FALSE)
              /\ pomodoro_state' = "Stop"
              /\ UNCHANGED <<remaining_sec, position, pomodoro_phase>> ]_vars

\* stop() has been called on a running relax phase, which it left in place.
StoppedDuringRelax ==
    /\ call.op = "stop"
    /\ call.state = "Run"
    /\ call.phase = "Relax"
    /\ pomodoro_state = "Stop"
    /\ pomodoro_phase = "Relax"
    /\ remaining_sec = call.rem

(* C14.  A handler call shows at most one notification, and when it returns
   it has shown "before-relax" exactly if it was a Refresh that found the
   counter at 0 in phase Focus, "after-relax" exactly if it was a Refresh
   that found the counter at 0 in phase Relax, and nothing otherwise: not on
   StartTimer, not on a Refresh with the counter above 0, and not on a
   Refresh repeated after the transition (the phase is then BeforeRelax or
   BeforeFocus). *)
NotificationPerBoundary ==
    [][ /\ Returned
           => notification' =
                 IF call'.op = "Refresh" /\ call'.rem = 0 /\ call'.phase = "Focus"
                 THEN "before-relax"
                 ELSE IF call'.op = "Refresh" /\ call'.rem = 0 /\ call'.phase = "Relax"
                 THEN "after-relax"
                 ELSE "none"
        /\ notification' # notification
           => (notification = "none" \/ (Entered /\ notification' = "none")) ]_vars

\* The end of the first relax phase has been announced.
AfterRelaxShown ==
    /\ ui_pc = "idle"
    /\ notification = "after-relax"
    /\ pomodoro_phase = "BeforeFocus"
    /\ position = 1

(* C15.  Once reset() has returned, and until the next call: the state is
   Stop, the position is 0, the counter is 0 whatever the clock thread does,
   the last signal sent is a deactivation, and the phase is the one reset()
   found. *)
ResetOutcome ==
    (ui_pc = "idle" /\ call.op = "reset")
        => /\ pomodoro_state = "Stop"
           /\ position = 0
           /\ remaining_sec = 0
           /\ last_sent = FALSE
           /\ pomodoro_phase = call.phase

(* C16.  Refresh is handled only while the state is Run, so a change of the
   phase or the position made by Refresh belongs to a call entered in state
   Run; and while the state is Pause neither phase nor position changes,
   also when the counter has reached 0 before the pause. *)
RefreshOnlyWhileRunning ==
    [][ /\ (Entered /\ call'.op = "Refresh") => pomodoro_state = "Run"
        /\ ((pomodoro_phase' # pomodoro_phase \/ position' # position) /\ ~Entered)
           => (call.op = "Refresh" /\ call.state = "Run")
        /\ (pomodoro_state = "Pause" /\ pomodoro_state' = "Pause")
           => UNCHANGED <<pomodoro_phase, position>> ]_vars

\* The focus countdown has reached 0 and was paused before the next poll,
\* and the clock has since seen the deactivation.
PausedAtZero ==
    /\ ui_pc = "idle"
    /\ pomodoro_state = "Pause"
    /\ pomodoro_phase = "Focus"
    /\ remaining_sec = 0
    /\ counter_pipe = << >>
    /\ ~is_active

(* C17.  Whenever view renders, the progress fraction 1 - remaining/initial
   is computed with initial > 0: in BeforeFocus and BeforeRelax no division
   by an initial duration of 0 takes place. *)
ProgressDivisorPositive ==
    ui_pc = "idle" => ProgressDivisor > 0

(* C18.  The time label of a counter value n reads, before its colon, the
   number n / 60 (integer division) and, after it, the number n % 60, each
   in at least two digits with a leading zero when below 10; so minutes * 60
   + seconds = n and 0 <= seconds < 60; 605 reads "10:05". *)
LabelValue(chars) ==
    LET RECURSIVE Value(_)
        Value(k) == IF k = 0 THEN 0
                    ELSE Value(k - 1) * 10
                         + (CHOOSE d \in 0 .. 9 : DigitChars[d + 1] = chars[k])
    IN Value(Len(chars))

LabelIsMinutesAndSeconds ==
    formated_remaining # << >> =>
        LET t == formated_remaining
            L == Len(t)
            minutes == LabelValue(SubSeq(t, 1, L - 3))
            seconds == LabelValue(SubSeq(t, L - 1, L))
        IN /\ L >= 5
           /\ t[L - 2] = ":"
           /\ \A i \in (1 .. L) \ {L - 2} : \E d \in 1 .. 10 : DigitChars[d] = t[i]
           /\ minutes = remaining_sec \div 60
           /\ seconds = remaining_sec % 60
           /\ minutes * 60 + seconds = remaining_sec
           /\ seconds >= 0 /\ seconds < 60
           /\ (L = 5) = (remaining_sec < 6000)
           /\ (remaining_sec = 605 => t = << "1", "0", ":", "0", "5" >>)

\* 605 seconds have been rendered as 10:05.
TenMinutesFive ==
    /\ remaining_sec = 605
    /\ formated_remaining = << "1", "0", ":", "0", "5" >>

(* C19.  The clock thread, which owns the receiving end of the channel,
   never leaves its loop, so counter_pipe.send(..).unwrap() in start, pause,
   resume, stop and reset never fails: at every send the thread is at one of
   the three places of its loop. *)
ClockThreadNeverExits ==
    clock_pc \in {"recv", "load", "sub"}

\* The clock thread is still in its loop, and has received a signal sent by
\* StartTimer, after the counter wrapped below zero.
ClockRunsAfterWrap ==
    /\ ui_pc = "idle"
    /\ call.op = "StartTimer"
    /\ remaining_sec < 0
    /\ counter_pipe = << >>
    /\ last_sent
    /\ is_active
    /\ clock_pc = "load"

(* C20.  If from some point on the controller sends no signal, then, the
   clock ticking on, from some point on the channel is empty and the clock's
   flag equals the last signal sent, for good: every queued signal was
   received, in the order sent. *)
FlagSettlesOnLastSignal ==
    (<>[][Len(counter_pipe') <= Len(counter_pipe)]_vars)
        => <>[](counter_pipe = << >> /\ is_active = last_sent)

\* Three signals sent between two ticks wait in the channel, and the flag
\* differs from the last of them.
SignalsQueuedBetweenTicks ==
    /\ Len(counter_pipe) >= 3
    /\ clock_pc = "recv"
    /\ is_active # last_sent
    /\ last_sent = counter_pipe[Len(counter_pipe)]

(* C21.  A countdown that runs in phase Focus or Relax and is not paused by
   the user reaches 0, and Refresh then moves the phase on (the only way out
   of state Run without that is the user's press, which makes it Pause); a
   handler that was entered returns; and where the cycle waits for the user,
   in state Stop or Pause, the press that makes it go on can be handled: from
   Stop it moves the phase and starts the countdown, from Pause it resumes. *)
CountdownProgresses ==
    /\ \A p \in {"Focus", "Relax"} :
          /\ (pomodoro_state = "Run" /\ pomodoro_phase = p)
                ~> (pomodoro_state = "Pause" \/ remaining_sec = 0)
          /\ (pomodoro_state = "Run" /\ pomodoro_phase = p)
                ~> (pomodoro_state = "Pause" \/ pomodoro_phase # p)
    /\ (ui_pc # "idle") ~> (ui_pc = "idle")
    /\ []( (ui_pc = "idle" /\ Len(counter_pipe) < MaxQueue)
             => /\ pomodoro_state = "Stop"
                   => ENABLED ( /\ StartTimer
                                /\ pomodoro_phase' # pomodoro_phase
                                /\ pomodoro_state' = "Run" )
                /\ pomodoro_state = "Pause"
                   => ENABLED (StartTimer /\ pomodoro_state' = "Run") )

\* The relax countdown of the second round, entered by the auto-continue,
\* has run out and Refresh has moved the phase on.
RelaxRanOut ==
    /\ ui_pc = "idle"
    /\ ZeroRefresh("Relax")
    /\ call.state = "Run"
    /\ call.position = 1
    /\ pomodoro_phase = "BeforeFocus"
    /\ counter_pipe = << >>
    /\ ~is_active

(* C22.  In the auto-continue (Refresh finds the counter at 0 in phase Focus,
   window focused) the relax duration is stored before the activating signal
   is sent: until the store the counter is not written by anyone else, and
   when the call returns the counter equals the relax duration of the current
   position. *)
AutoContinueStartsFull ==
    [][ /\ (ui_pc \in {"focus_stop", "focus_store"} /\ remaining_sec' # remaining_sec)
           => /\ ui_pc = "focus_store"
              /\ remaining_sec' = pomodoro_lengths[position + 1].relax
        /\ (Returned /\ ZeroRefresh("Focus")' /\ call'.focused)
           => remaining_sec' = pomodoro_lengths[position' + 1].relax ]_vars

(* C23.  From construction until the first StartTimer is handled: the phase
   is BeforeFocus, the state Stop, the position 0, the channel empty, the
   clock's flag false, and the clock never gets past its try_recv, so the
   counter stays at the focus duration of round 0 however often it ticks. *)
FreshTimerIdle ==
    call.op = "new"
        => /\ pomodoro_phase = "BeforeFocus"
           /\ pomodoro_state = "Stop"
           /\ position = 0
           /\ counter_pipe = << >>
           /\ ~is_active
           /\ clock_pc = "recv"
           /\ remaining_sec = pomodoro_lengths[1].focus

\* Nothing has been pressed yet; the clock can tick, and its tick changes
\* nothing.
FreshTimerTicking ==
    /\ call.op = "new"
    /\ ENABLED ClockRecv
    /\ ~ENABLED <<ClockRecv>>_vars
    /\ ~ENABLED Refresh
    /\ remaining_sec = 10

(* C24.  Under StartTimer, Refresh and the clock, whenever no handler is
   being run the state is Stop exactly if the phase is BeforeFocus or
   BeforeRelax: Stop never goes with Focus or Relax, and Run or Pause never
   with BeforeFocus or BeforeRelax. *)
StateMatchesPhase ==
    ui_pc = "idle"
        => /\ (pomodoro_state = "Stop")
                 <=> (pomodoro_phase \in {"BeforeFocus", "BeforeRelax"})
           /\ <<pomodoro_state, pomodoro_phase>> \notin
                 ({"Stop"} \X {"Focus", "Relax"})
                 \cup ({"Run", "Pause"} \X {"BeforeFocus", "BeforeRelax"})

\* The relax countdown of the second round is paused.
PausedInSecondRelax ==
    /\ ui_pc = "idle"
    /\ pomodoro_state = "Pause"
    /\ pomodoro_phase = "Relax"
    /\ position = 1
    /\ call.op = "StartTimer"

(* C25.  Under StartTimer, Refresh and the clock the counter is never above
   the duration of the current phase at the current position (the focus
   length in BeforeFocus and Focus, the relax length in BeforeRelax and
   Relax; a wrapped counter would be far above it), so the progress fraction
   1 - remaining/initial that view computes in Focus and Relax lies between
   0 and 1: its numerator initial - remaining lies between 0 and initial,
   and initial is positive. *)
CounterWithinDuration ==
    /\ remaining_sec >= 0
    /\ remaining_sec <=
          IF pomodoro_phase \in {"BeforeFocus", "Focus"}
          THEN pomodoro_lengths[position + 1].focus
          ELSE pomodoro_lengths[position + 1].relax
    /\ pomodoro_phase \in {"Focus", "Relax"}
          => /\ ProgressDivisor > 0
             /\ ProgressDivisor - remaining_sec >= 0
             /\ ProgressDivisor - remaining_sec <= ProgressDivisor

\* Half of the second round's relax countdown is over.
HalfwayThroughRelax ==
    /\ ui_pc = "idle"
    /\ pomodoro_phase = "Relax"
    /\ pomodoro_state = "Run"
    /\ position = 1
    /\ remaining_sec = 2
    /\ ProgressDivisor = 4

(* C26.  The signal sent last (false when none was sent yet) is true exactly
   if the state is Run; hence, when the clock is about to try_recv and the
   channel is empty, its flag is true exactly if the state is Run. *)
LastSignalMatchesRun ==
    /\ last_sent = (pomodoro_state = "Run")
    /\ (counter_pipe = << >> /\ clock_pc = "recv")
          => (is_active = (pomodoro_state = "Run"))

\* A resume has been received: the channel is empty again and the clock,
\* back at its try_recv, is active.
ResumeReceived ==
    /\ ui_pc = "idle"
    /\ call.op = "StartTimer"
    /\ call.state = "Pause"
    /\ pomodoro_state = "Run"
    /\ counter_pipe = << >>
    /\ clock_pc = "recv"
    /\ is_active

===========================================================================
